---- MODULE Spec2Model ----
(***************************************************************************)
(* A model of bmap-cpp (src/src/bmap.h): the block-map descriptor parser   *)
(* (xml::value, xml::valueFromSimpleXPath, bmap::Range::parse,             *)
(* bmap::BmapFile::from_xml_data) and the sparse copy bmap::copy.          *)
(*                                                                         *)
(* Text is a sequence of one-character strings.  A size_t value is         *)
(* represented by the integer of least magnitude congruent to it modulo    *)
(* 2^64: every number of the model has magnitude below 2^31, so + and - on *)
(* the representatives are exact and a negative representative r stands    *)
(* for the wrapped-around value 2^64 + r.                                  *)
(***************************************************************************)
EXTENDS Integers, Sequences, FiniteSets, TLC

VARIABLES
    pc,            \* position in from_xml_data / copy
    wicPath,       \* copy's argument wicPath (text)
    hasCallback,   \* copy's argument callback is non-null
    fsWic,         \* the file system: wicPath exists
    fsTarget,      \* the file system: targetDisk exists
    fsBmap,        \* the file system: the descriptor path exists
    bmapDoc,       \* the descriptor file's content, as an element tree
    bmapFile,      \* the parsed BmapFile
    opened,        \* the files opened so far
    srcOpen,       \* wicFile is open
    dstOpen,       \* blockDevice is open
    buffSize,      \* buff.size()
    blocksWritten, \* progress.blocksWritten
    rangeIdx,      \* index into bmapFile.blockMap of the range loop
    blockCount,    \* the chunk loop's blockCount
    srcPos,        \* wicFile's read position, in bytes
    srcFail,       \* wicFile's failbit
    dstPos,        \* blockDevice's file position, in bytes
    writes,        \* the extents handed to fwrite, in order
    nKernel,       \* how many of them have left the FILE's user-space buffer
    nStable,       \* how many of them fsync has made durable
    chunkLog,      \* one record per pass of the chunk loop
    cbLog,         \* one record per invocation of the callback
    faults,        \* environment failures injected so far
    failure        \* the first I/O failure, with the progress at that moment

vars == <<pc, wicPath, hasCallback, fsWic, fsTarget, fsBmap, bmapDoc, bmapFile,
          opened, srcOpen, dstOpen, buffSize, blocksWritten, rangeIdx,
          blockCount, srcPos, srcFail, dstPos, writes, nKernel, nStable,
          chunkLog, cbLog, faults, failure>>

(***************************************************************************)
(* Bounds of the model.                                                    *)
(***************************************************************************)
\* longest enumerated Range text
MaxLen == 4
\* most children of BlockMap in an enumerated descriptor
MaxChildren == 3
\* blocks of the image that the enumerated ranges may cover
DevBlocks == 5
\* most ranges in an enumerated block map
MaxRanges == 3
\* environment failures injected in one run
MaxFaults == 1
\* passes of the chunk loop followed in one run
MaxChunks == 6
\* bytes the FILE's user-space buffer can hold back
StdioBuf == 4

(***************************************************************************)
(* Program constants.                                                      *)
(***************************************************************************)
MAX_BUF_SIZE == 4 * 1024 * 1024 * 2

(***************************************************************************)
(* Text.                                                                   *)
(***************************************************************************)
DigitChars == <<"0", "1", "2", "3", "4", "5", "6", "7", "8", "9">>

IsDigit(c) == \E i \in 1..10 : DigitChars[i] = c

DigitVal(c) == (CHOOSE i \in 1..10 : DigitChars[i] = c) - 1

IsSpace(c) == c = " "

Tail0(s, n) == SubSeq(s, n + 1, Len(s))

\* std::string::ends_with
EndsWith(s, suffix) ==
    /\ Len(s) >= Len(suffix)
    /\ SubSeq(s, Len(s) - Len(suffix) + 1, Len(s)) = suffix

\* std::string::find(c) != npos
Contains(s, c) == \E i \in 1..Len(s) : s[i] = c

\* the decimal text of n >= 0, as operator<< and std::format write it
RECURSIVE ToText(_)
ToText(n) ==
    IF n < 10 THEN <<DigitChars[n + 1]>>
    ELSE Append(ToText(n \div 10), DigitChars[(n % 10) + 1])

(***************************************************************************)
(* std::istream >> size_t (num_get): skip leading white space, take an     *)
(* optional sign, then the longest run of digits.  No digit: failbit, and  *)
(* the value stored is 0.  A leading '-' negates the value modulo 2^64.    *)
(***************************************************************************)
RECURSIVE SkipWs(_)
SkipWs(s) == IF s # <<>> /\ IsSpace(s[1]) THEN SkipWs(Tail(s)) ELSE s

RECURSIVE DigitRun(_)
DigitRun(s) ==
    IF s # <<>> /\ IsDigit(s[1]) THEN <<s[1]>> \o DigitRun(Tail(s)) ELSE <<>>

RECURSIVE Accumulate(_, _)
Accumulate(acc, s) ==
    IF s = <<>> THEN acc ELSE Accumulate(acc * 10 + DigitVal(s[1]), Tail(s))

StreamExtract(text) ==
    LET s0 == SkipWs(text)
        signed == s0 # <<>> /\ s0[1] \in {"+", "-"}
        neg == s0 # <<>> /\ s0[1] = "-"
        run == DigitRun(IF signed THEN Tail(s0) ELSE s0)
        v == Accumulate(0, run)
    IN  IF run = <<>> THEN [fail |-> TRUE, val |-> 0]
        ELSE [fail |-> FALSE, val |-> IF neg THEN 0 - v ELSE v]

\* Range::parse's lambda to_sizeT: the stream's state is never looked at
to_sizeT(in) == StreamExtract(in).val

\* std::views::split(delim): the segments between delimiters, empty ones kept
RECURSIVE Split(_, _)
Split(s, delim) ==
    IF ~Contains(s, delim) THEN <<s>>
    ELSE LET i == CHOOSE j \in 1..Len(s) :
                      s[j] = delim /\ \A k \in 1..(j - 1) : s[k] # delim
         IN  <<SubSeq(s, 1, i - 1)>> \o Split(Tail0(s, i), delim)

(***************************************************************************)
(* bmap::Range::parse on an element's text and chksum attribute.           *)
(***************************************************************************)
RangeParseOffByOne(text, chksum) ==
    IF ~Contains(text, "-")
    THEN [offset |-> to_sizeT(text), blockCount |-> 1, checksum |-> chksum]
    ELSE LET segs == Split(text, "-")
             start == to_sizeT(segs[1])
         IN  [offset |-> start,
              blockCount |-> to_sizeT(segs[2]) - start,
              checksum |-> chksum]

RangeParse(text, chksum) ==
    IF ~Contains(text, "-")
    THEN [offset |-> to_sizeT(text), blockCount |-> 1, checksum |-> chksum]
    ELSE LET segs == Split(text, "-")
             start == to_sizeT(segs[1])
         IN  [offset |-> start,
              blockCount |-> to_sizeT(segs[2]) - start + 1,
              checksum |-> chksum]

(***************************************************************************)
(* The element tree.  An element is [name, text, chksum, children]; the    *)
(* document is [empty, root] with root the root element's children.        *)
(***************************************************************************)
\* XMLElement::FirstChildElement(name): the index of the child, 0 for null
FirstChildElement(children, name) ==
    IF \E i \in 1..Len(children) : children[i].name = name
    THEN CHOOSE i \in 1..Len(children) :
             /\ children[i].name = name
             /\ \A k \in 1..(i - 1) : children[k].name # name
    ELSE 0

\* xml::valueFromSimpleXPath<size_t> with a one-segment path
ValueSizeT(root, name) ==
    LET i == FirstChildElement(root, name)
    IN  IF i = 0 THEN [thrown |-> TRUE, val |-> 0]
        ELSE LET r == StreamExtract(root[i].text)
             IN  [thrown |-> r.fail, val |-> IF r.fail THEN 0 ELSE r.val]

\* xml::valueFromSimpleXPath<std::string> with a one-segment path
ValueString(root, name) ==
    LET i == FirstChildElement(root, name)
    IN  IF i = 0 THEN [thrown |-> TRUE, val |-> <<>>]
        ELSE [thrown |-> FALSE, val |-> root[i].text]

NullBmap ==
    [imageSize |-> 0, blockSize |-> 0, blocksCount |-> 0,
     mappedBlocksCount |-> 0, checksumType |-> <<>>, checksum |-> <<>>,
     blockMap |-> <<>>]

\* from_xml_data's loop: FirstChildElement("Range"), then NextSiblingElement()
BlockMapOf(root) ==
    LET b == FirstChildElement(root, "BlockMap")
    IN  IF b = 0 THEN <<>>
        ELSE LET kids == root[b].children
                 first == FirstChildElement(kids, "Range")
             IN  IF first = 0 THEN <<>>
                 ELSE [i \in 1..(Len(kids) - first + 1) |->
                          RangeParse(kids[first + i - 1].text,
                                     kids[first + i - 1].chksum)]

\* bmap::BmapFile::from_xml_data
FromXmlData(doc) ==
    IF doc.empty THEN [thrown |-> TRUE, bmap |-> NullBmap]
    ELSE LET imageSize == ValueSizeT(doc.root, "ImageSize")
             blockSize == ValueSizeT(doc.root, "BlockSize")
             blocksCount == ValueSizeT(doc.root, "BlocksCount")
             mapped == ValueSizeT(doc.root, "MappedBlocksCount")
             chcksmType == ValueString(doc.root, "ChecksumType")
             chcksum == ValueString(doc.root, "BmapFileChecksum")
         IN  IF \/ imageSize.thrown \/ blockSize.thrown \/ blocksCount.thrown
                \/ mapped.thrown \/ chcksmType.thrown \/ chcksum.thrown
             THEN [thrown |-> TRUE, bmap |-> NullBmap]
             ELSE [thrown |-> FALSE,
                   bmap |-> [imageSize |-> imageSize.val,
                             blockSize |-> blockSize.val,
                             blocksCount |-> blocksCount.val,
                             mappedBlocksCount |-> mapped.val,
                             checksumType |-> chcksmType.val,
                             checksum |-> chcksum.val,
                             blockMap |-> BlockMapOf(doc.root)]]

(***************************************************************************)
(* Descriptor documents.                                                   *)
(***************************************************************************)
Scalar(name, text) ==
    [name |-> name, text |-> text, chksum |-> <<>>, children |-> <<>>]

RangeElem(name, text) ==
    [name |-> name, text |-> text, chksum |-> <<"c">>, children |-> <<>>]

BlockMapElem(kids) ==
    [name |-> "BlockMap", text |-> <<>>, chksum |-> <<>>, children |-> kids]

Scalars(imageSize, blockSize, blocksCount, mapped) ==
    << Scalar("ImageSize", imageSize), Scalar("BlockSize", blockSize),
       Scalar("BlocksCount", blocksCount),
       Scalar("MappedBlocksCount", mapped),
       Scalar("ChecksumType", <<"s", "h", "a">>),
       Scalar("BmapFileChecksum", <<"f", "0">>) >>

\* the text N or N-M of a range
RangeText(r) ==
    IF r.blockCount = 1 THEN ToText(r.offset)
    ELSE ToText(r.offset) \o <<"-">> \o ToText(r.offset + r.blockCount - 1)

\* the descriptor a block-map generator writes for a block size, a mapped
\* block count and a list of ranges
MkDoc(blockSize, mapped, ranges) ==
    [empty |-> FALSE,
     root |-> Scalars(ToText(DevBlocks * blockSize), ToText(blockSize),
                      ToText(DevBlocks), ToText(mapped))
              \o << BlockMapElem([i \in 1..Len(ranges) |->
                                     RangeElem("Range", RangeText(ranges[i]))]) >>]

\* a well-formed descriptor around the given children of BlockMap
DocOfKids(kids) ==
    [empty |-> FALSE,
     root |-> Scalars(<<"4", "0">>, <<"4">>, <<"1", "0">>, <<"2">>)
              \o << BlockMapElem(kids) >>]

RECURSIVE SeqsUpTo(_, _)
SeqsUpTo(S, n) ==
    IF n = 0 THEN {<<>>}
    ELSE LET shorter == SeqsUpTo(S, n - 1)
         IN  shorter \cup {Append(s, x) : s \in {t \in shorter : Len(t) = n - 1},
                                          x \in S}

TextChars == {"1", "5", "0", "-", "x"}

\* every Range text of at most MaxLen characters, and the examples of the
\* documentation
RangeTexts ==
    (SeqsUpTo(TextChars, MaxLen) \ {<<>>})
    \cup { <<"1", "0", "0">>, <<"1", "0", "0", "-", "1", "9", "9">>,
           <<"5", "-", "5">>, <<"a", "b", "c">>, <<"1", "-", "x">>,
           <<"5", "-">>, <<"-", "5">> }

SampleKids ==
    { RangeElem("Range", <<"1">>), RangeElem("Range", <<"3", "-", "5">>),
      RangeElem("Range", <<"x">>), RangeElem("Other", <<"7">>) }

\* a descriptor with one scalar missing or not a number
BrokenDocs ==
    { [empty |-> TRUE, root |-> <<>>],
      [empty |-> FALSE, root |-> Tail(DocOfKids(<<>>).root)],
      [empty |-> FALSE,
       root |-> Scalars(<<"4", "0">>, <<"x">>, <<"1", "0">>, <<"2">>)],
      [empty |-> FALSE,
       root |-> SubSeq(DocOfKids(<<>>).root, 1, 5)] }

ParseDocs ==
    { DocOfKids(<<RangeElem("Range", t)>>) : t \in RangeTexts }
    \cup { DocOfKids(kids) : kids \in SeqsUpTo(SampleKids, MaxChildren) }
    \cup { [empty |-> FALSE, root |-> SubSeq(DocOfKids(<<>>).root, 1, 6)] }
    \cup BrokenDocs

NoFailure == [kind |-> "none", blocksWritten |-> 0, callbacks |-> 0, chunks |-> 0]

\* the state of a copy that has not started
CopyIdle ==
    /\ opened = {}
    /\ srcOpen = FALSE
    /\ dstOpen = FALSE
    /\ buffSize = 0
    /\ blocksWritten = 0
    /\ rangeIdx = 0
    /\ blockCount = 0
    /\ srcPos = 0
    /\ srcFail = FALSE
    /\ dstPos = 0
    /\ writes = <<>>
    /\ nKernel = 0
    /\ nStable = 0
    /\ chunkLog = <<>>
    /\ cbLog = <<>>
    /\ faults = 0
    /\ failure = NoFailure

copyVars == <<opened, srcOpen, dstOpen, buffSize, blocksWritten, rangeIdx,
              blockCount, srcPos, srcFail, dstPos, writes, nKernel, nStable,
              chunkLog, cbLog, faults, failure>>

envVars == <<wicPath, hasCallback, fsWic, fsTarget, fsBmap, bmapDoc>>

(***************************************************************************)
(* from_xml_data called on its own, as the README does.                    *)
(***************************************************************************)
InitParse ==
    /\ pc = "xml"
    /\ bmapDoc \in ParseDocs
    /\ bmapFile = NullBmap
    /\ wicPath = <<>>
    /\ hasCallback = FALSE
    /\ fsWic = FALSE
    /\ fsTarget = FALSE
    /\ fsBmap = FALSE
    /\ CopyIdle

FromXmlDataReturn ==
    /\ pc = "xml"
    /\ ~FromXmlData(bmapDoc).thrown
    /\ bmapFile' = FromXmlData(bmapDoc).bmap
    /\ pc' = "parsed"
    /\ UNCHANGED <<envVars, copyVars>>

FromXmlDataThrow ==
    /\ pc = "xml"
    /\ FromXmlData(bmapDoc).thrown
    /\ pc' = "error"
    /\ UNCHANGED <<bmapFile, envVars, copyVars>>

NextParse == FromXmlDataReturn \/ FromXmlDataThrow

SpecParse == InitParse /\ [][NextParse]_vars

(***************************************************************************)
(* bmap::Progress::percent in IEEE-754 binary32, as                        *)
(* uint8_t(100.0f / (float)mappedBlocks * (float)blocksWritten).  A float  *)
(* is kept as [mant, k], the value mant / 2^k with a 24-bit significand.   *)
(* Exact for 1 <= mappedBlocks <= 127 and 0 <= blocksWritten <= 127.       *)
(***************************************************************************)
RoundHalfEven(n, d) ==
    LET q == n \div d
        r == n % d
    IN  IF 2 * r > d \/ (2 * r = d /\ q % 2 = 1) THEN q + 1 ELSE q

\* 100.0f / (float)m
F32Div100(m) ==
    LET k == CHOOSE j \in 0..24 :
                 /\ (100 * 2^j) \div m >= 2^23
                 /\ (100 * 2^j) \div m < 2^24
        mant == RoundHalfEven(100 * 2^k, m)
    IN  IF mant = 2^24 THEN [mant |-> 2^23, k |-> k - 1]
        ELSE [mant |-> mant, k |-> k]

\* the integer part of q * (float)w, the product rounded to binary32
F32MulTrunc(q, w) ==
    LET p == q.mant * w
    IN  IF p < 2^24 THEN p \div 2^(q.k)
        ELSE LET s == CHOOSE j \in 1..8 :
                          p \div 2^j >= 2^23 /\ p \div 2^j < 2^24
                 r == RoundHalfEven(p, 2^s)
             IN  (r * 2^s) \div 2^(q.k)

PercentExact(mappedBlocks, written) == (100 * written) \div mappedBlocks

PercentValue(mappedBlocks, written) ==
    F32MulTrunc(F32Div100(mappedBlocks), written)

\* the values percent() can return: the conversion of a float above 255 to
\* uint8_t is undefined, and builds either reduce it modulo 256 or saturate
PercentOutcomes(mappedBlocks, written) ==
    LET v == PercentValue(mappedBlocks, written)
    IN  IF v <= 255 THEN {v} ELSE {v % 256, 255}

(***************************************************************************)
(* The inputs of copy.                                                     *)
(***************************************************************************)
WicPathText == <<"a", ".", "w", "i", "c">>

Paths ==
    { WicPathText,
      <<"a", ".", "w", "i", "c", ".", "g", "z">>,
      <<"a", "w", "i", "c", ".", "g", "z">>,
      <<"a", ".", "i", "m", "g">>,
      <<"w", "i", "c">>,
      <<>> }

Rng(offset, count) == [offset |-> offset, blockCount |-> count]

\* the lists of at most n ranges, ascending and non-overlapping, within the
\* blocks lo .. DevBlocks - 1
RECURSIVE SortedLists(_, _)
SortedLists(lo, n) ==
    IF n = 0 THEN {<<>>}
    ELSE {<<>>} \cup
         UNION { { <<Rng(o, c)>> \o rest : rest \in SortedLists(o + c, n - 1) } :
                 <<o, c>> \in { x \in (lo..(DevBlocks - 1)) \X (1..DevBlocks) :
                                x[1] + x[2] <= DevBlocks } }

\* lists the copy does not expect: descending, overlapping, an empty range
OtherLists ==
    { <<Rng(2, 1), Rng(0, 1)>>, <<Rng(0, 2), Rng(1, 2)>>, <<Rng(1, 0)>> }

RECURSIVE SumBlocks(_)
SumBlocks(l) == IF l = <<>> THEN 0 ELSE l[1].blockCount + SumBlocks(Tail(l))

BlockSizes == {1, 2, MAX_BUF_SIZE \div 2, MAX_BUF_SIZE, MAX_BUF_SIZE + 1}

\* a consistent descriptor whose copy ends at 97 of 97 blocks
ProbeDoc == MkDoc(1, 97, <<Rng(0, 97)>>)

CopyDocs ==
    { MkDoc(bs, m, l) :
        bs \in BlockSizes,
        m \in {1},
        l \in SortedLists(0, MaxRanges) \cup OtherLists }
    \cup { MkDoc(bs, SumBlocks(l), l) :
             bs \in BlockSizes, l \in SortedLists(0, MaxRanges) \cup OtherLists }
    \cup { ProbeDoc }
    \cup BrokenDocs

InitCopy ==
    /\ pc = "start"
    /\ bmapFile = NullBmap
    /\ hasCallback \in BOOLEAN
    /\ \/ /\ wicPath = WicPathText
          /\ fsWic = TRUE
          /\ fsTarget = TRUE
          /\ fsBmap = TRUE
          /\ bmapDoc \in CopyDocs
       \/ /\ wicPath \in Paths
          /\ fsWic \in BOOLEAN
          /\ fsTarget \in BOOLEAN
          /\ fsBmap \in BOOLEAN
          /\ bmapDoc = MkDoc(1, 2, <<Rng(0, 2)>>)
    /\ CopyIdle

(***************************************************************************)
(* bmap::copy.                                                             *)
(***************************************************************************)
\* the checks before anything is opened, with the compressed suffix let through
PathChecksPassGz(path, wicExists, targetExists) ==
    /\ EndsWith(path, <<".", "w", "i", "c">>)
          \/ EndsWith(path, <<"w", "i", "c", ".", "g", "z">>)
    /\ wicExists
    /\ targetExists

\* the suffix and existence checks of copy: none of the four throws
PathChecksPass(path, wicExists, targetExists) ==
    /\ ~(/\ ~EndsWith(path, <<".", "w", "i", "c">>)
         /\ ~EndsWith(path, <<"w", "i", "c", ".", "g", "z">>))
    /\ ~EndsWith(path, <<"w", "i", "c", ".", "g", "z">>)
    /\ wicExists
    /\ targetExists

\* buff.size(): std::min(blockSize * 1024 * 2, MAX_BUF_SIZE).  The product is
\* not formed when it would pass MAX_BUF_SIZE, which leaves the minimum as it is
\* for every block size whose product does not wrap around 2^64.
BuffSizeOf(blockSize) ==
    IF blockSize >= MAX_BUF_SIZE \div (1024 * 2) THEN MAX_BUF_SIZE
    ELSE blockSize * 1024 * 2

\* bufferMaxBlocks
BufferMaxBlocks == buffSize \div bmapFile.blockSize

\* readBlocks without the buffer's limit
ReadBlocksUncapped(remaining) == remaining

\* readBlocks of one pass of the chunk loop
ReadBlocks(remaining) ==
    IF BufferMaxBlocks < remaining THEN BufferMaxBlocks ELSE remaining

\* the first I/O failure is remembered with the progress made before it
NoteFailure(kind) ==
    IF failure.kind = "none"
    THEN [kind |-> kind, blocksWritten |-> blocksWritten,
          callbacks |-> Len(cbLog), chunks |-> Len(chunkLog)]
    ELSE failure

RECURSIVE Bytes(_)
Bytes(ws) == IF ws = <<>> THEN 0 ELSE ws[1].len + Bytes(Tail(ws))

\* fwrite into a fully buffered FILE: the bytes stay in the user-space buffer
\* while they fit, and are handed to the kernel when they do not
AfterFwrite(ws, inKernel) ==
    IF Bytes(Tail0(ws, inKernel)) <= StdioBuf THEN inKernel ELSE Len(ws)

\* lines 239-254: the suffix and existence checks
ValidatePaths ==
    /\ pc = "start"
    /\ pc' = IF PathChecksPass(wicPath, fsWic, fsTarget) THEN "located"
             ELSE "error"
    /\ UNCHANGED <<bmapFile, envVars, copyVars>>

\* lines 256-266 and BmapFile::from_xml: the descriptor is opened, read, parsed
FromXml ==
    /\ pc = "located"
    /\ IF ~fsBmap
       THEN /\ pc' = "error"
            /\ UNCHANGED <<bmapFile, opened>>
       ELSE /\ opened' = opened \cup {"bmap"}
            /\ IF FromXmlData(bmapDoc).thrown
               THEN pc' = "error" /\ UNCHANGED bmapFile
               ELSE pc' = "parsed" /\ bmapFile' = FromXmlData(bmapDoc).bmap
    /\ UNCHANGED <<envVars, srcOpen, dstOpen, buffSize, blocksWritten,
                   rangeIdx, blockCount, srcPos, srcFail, dstPos, writes,
                   nKernel, nStable, chunkLog, cbLog, faults, failure>>

\* lines 274-292: the image and the device are opened, the buffer allocated.
\* fopen may fail and the allocation may throw; an exception closes wicFile
\* (its destructor) and nothing else.
OpenStreams ==
    /\ pc = "parsed"
    /\ bmapFile.blockSize >= 1
    /\ \E fault \in {"none", "fopen", "alloc"} :
         /\ fault # "none" => faults < MaxFaults
         /\ faults' = IF fault = "none" THEN faults ELSE faults + 1
         /\ IF fault = "fopen"
            THEN /\ opened' = opened \cup {"wic"}
                 /\ srcOpen' = FALSE
                 /\ dstOpen' = FALSE
                 /\ pc' = "error"
                 /\ failure' = NoteFailure("fopen")
                 /\ UNCHANGED <<buffSize, rangeIdx>>
            ELSE /\ opened' = opened \cup {"wic", "target"}
                 /\ dstOpen' = TRUE
                 /\ failure' = failure
                 /\ IF fault = "alloc"
                    THEN /\ srcOpen' = FALSE
                         /\ pc' = "error"
                         /\ UNCHANGED <<buffSize, rangeIdx>>
                    ELSE /\ srcOpen' = TRUE
                         /\ buffSize' = BuffSizeOf(bmapFile.blockSize)
                         /\ rangeIdx' = 1
                         /\ pc' = "range"
    /\ UNCHANGED <<bmapFile, envVars, blocksWritten, blockCount, srcPos,
                   srcFail, dstPos, writes, nKernel, nStable, chunkLog, cbLog>>

\* lines 293-299: the next range; both streams are moved when the range starts
\* past blocksWritten.  fseek writes the FILE's buffer out first; seekg does
\* nothing on a stream whose failbit is set.
BeginRange ==
    /\ pc = "range"
    /\ rangeIdx <= Len(bmapFile.blockMap)
    /\ LET range == bmapFile.blockMap[rangeIdx]
           seekOffs == range.offset - blocksWritten
       IN  /\ IF range.offset > blocksWritten
              THEN /\ dstPos' = dstPos + seekOffs
                   /\ nKernel' = Len(writes)
                   /\ srcPos' = IF srcFail THEN srcPos ELSE srcPos + seekOffs
              ELSE UNCHANGED <<dstPos, nKernel, srcPos>>
           /\ blockCount' = range.blockCount
    /\ pc' = "chunk"
    /\ UNCHANGED <<bmapFile, envVars, opened, srcOpen, dstOpen, buffSize,
                   blocksWritten, rangeIdx, srcFail, writes, nStable,
                   chunkLog, cbLog, faults, failure>>

\* lines 301-316: one pass of the chunk loop: read, fwrite, the progress, the
\* callback.  The results of read and fwrite are not looked at.  A short read
\* sets the stream's failbit and leaves stale bytes in the buffer (src = -1);
\* a failed fwrite transfers nothing; a throwing callback ends copy.
CopyChunk ==
    /\ pc = "chunk"
    /\ blockCount > 0
    /\ Len(chunkLog) < MaxChunks
    /\ \E fault \in {"none", "read", "write", "callback"} :
         LET readBlocks == ReadBlocks(blockCount)
             byteCount == readBlocks * bmapFile.blockSize
             stale == srcFail \/ fault = "read"
             extent == [dst |-> dstPos, len |-> byteCount,
                        src |-> IF stale THEN 0 - 1 ELSE srcPos]
             written == IF fault = "write" \/ byteCount = 0 THEN writes
                        ELSE Append(writes, extent)
             bw == blocksWritten + readBlocks
         IN  /\ fault # "none" => faults < MaxFaults
             /\ fault = "callback" => hasCallback
             /\ faults' = IF fault = "none" THEN faults ELSE faults + 1
             /\ failure' = IF fault \in {"read", "write"}
                           THEN NoteFailure(fault) ELSE failure
             /\ srcFail' = stale
             /\ srcPos' = IF stale THEN srcPos ELSE srcPos + byteCount
             /\ writes' = written
             /\ nKernel' = AfterFwrite(written, nKernel)
             /\ dstPos' = dstPos + byteCount
             /\ blocksWritten' = bw
             /\ chunkLog' = Append(chunkLog,
                                   [range |-> rangeIdx, blocks |-> readBlocks,
                                    rd |-> byteCount, wr |-> byteCount,
                                    before |-> blocksWritten, after |-> bw])
             /\ IF hasCallback
                THEN \E p \in PercentOutcomes(bmapFile.mappedBlocksCount, bw) :
                         cbLog' = Append(cbLog,
                                         [blocksWritten |-> bw, percent |-> p])
                ELSE cbLog' = cbLog
             /\ IF fault = "callback"
                THEN /\ pc' = "error"
                     /\ srcOpen' = FALSE
                     /\ UNCHANGED blockCount
                ELSE /\ pc' = "chunk"
                     /\ srcOpen' = srcOpen
                     /\ blockCount' = blockCount - readBlocks
    /\ UNCHANGED <<bmapFile, envVars, opened, dstOpen, buffSize, rangeIdx,
                   nStable>>

\* line 317: fsync(blockFd) at the end of a range, its result not looked at;
\* it makes durable what the kernel holds
EndRange ==
    /\ pc = "chunk"
    /\ blockCount = 0
    /\ \E fault \in {"none", "fsync"} :
         /\ fault # "none" => faults < MaxFaults
         /\ faults' = IF fault = "none" THEN faults ELSE faults + 1
         /\ failure' = IF fault = "fsync" THEN NoteFailure(fault) ELSE failure
         /\ nStable' = IF fault = "fsync" THEN nStable ELSE nKernel
    /\ rangeIdx' = rangeIdx + 1
    /\ pc' = "range"
    /\ UNCHANGED <<bmapFile, envVars, opened, srcOpen, dstOpen, buffSize,
                   blocksWritten, blockCount, srcPos, srcFail, dstPos, writes,
                   nKernel, chunkLog, cbLog>>

\* lines 327-328: fclose writes the FILE's buffer out; both handles are closed
Finish ==
    /\ pc = "range"
    /\ rangeIdx > Len(bmapFile.blockMap)
    /\ nKernel' = Len(writes)
    /\ dstOpen' = FALSE
    /\ srcOpen' = FALSE
    /\ pc' = "done"
    /\ UNCHANGED <<bmapFile, envVars, opened, buffSize, blocksWritten,
                   rangeIdx, blockCount, srcPos, srcFail, dstPos, writes,
                   nStable, chunkLog, cbLog, faults, failure>>

Init == InitCopy

Next ==
    \/ ValidatePaths
    \/ FromXml
    \/ OpenStreams
    \/ BeginRange
    \/ CopyChunk
    \/ EndRange
    \/ Finish

Spec == Init /\ [][Next]_vars

(***************************************************************************)
(* Properties of the parser, checked under SpecParse.                      *)
(***************************************************************************)
\* the children of the document's BlockMap element
DocKids ==
    LET b == IF bmapDoc.empty THEN 0 ELSE FirstChildElement(bmapDoc.root, "BlockMap")
    IN  IF b = 0 THEN <<>> ELSE bmapDoc.root[b].children

AllNamedRange == \A i \in 1..Len(DocKids) : DocKids[i].name = "Range"

AllDigits(t) == t # <<>> /\ \A i \in 1..Len(t) : IsDigit(t[i])

\* the number a run of decimal digits denotes
RECURSIVE Decimal(_)
Decimal(t) ==
    IF t = <<>> THEN 0
    ELSE 10 * Decimal(SubSeq(t, 1, Len(t) - 1)) + DigitVal(t[Len(t)])

\* the text N-M: one hyphen, digits on both sides
IsPair(t) ==
    \E i \in 2..(Len(t) - 1) :
        /\ t[i] = "-"
        /\ AllDigits(SubSeq(t, 1, i - 1))
        /\ AllDigits(SubSeq(t, i + 1, Len(t)))

PairN(t) == Decimal(SubSeq(t, 1, (CHOOSE i \in 1..Len(t) : t[i] = "-") - 1))

PairM(t) == Decimal(SubSeq(t, (CHOOSE i \in 1..Len(t) : t[i] = "-") + 1, Len(t)))

\* C4: Range::parse decodes a single integer N as offset N, blockCount 1 and a
\* pair N-M with M >= N as offset N, blockCount M - N + 1, which is at least 1;
\* "100" gives {100,1}, "100-199" gives {100,100}, "5-5" gives {5,1}.
C4_RangeDecoding ==
    (pc = "parsed" /\ AllNamedRange) =>
        /\ Len(bmapFile.blockMap) = Len(DocKids)
        /\ \A i \in 1..Len(DocKids) :
             LET t == DocKids[i].text
                 r == bmapFile.blockMap[i]
             IN  /\ AllDigits(t) => r.offset = Decimal(t) /\ r.blockCount = 1
                 /\ (IsPair(t) /\ PairM(t) >= PairN(t)) =>
                        /\ r.offset = PairN(t)
                        /\ r.blockCount = PairM(t) - PairN(t) + 1
                        /\ r.blockCount >= 1
                 /\ t = <<"1", "0", "0">> => r.offset = 100 /\ r.blockCount = 1
                 /\ t = <<"1", "0", "0", "-", "1", "9", "9">> =>
                        r.offset = 100 /\ r.blockCount = 100
                 /\ t = <<"5", "-", "5">> => r.offset = 5 /\ r.blockCount = 1

\* "100-199" has been parsed to a range of 100 blocks
C4_Witness ==
    /\ pc = "parsed"
    /\ Len(DocKids) = 1
    /\ DocKids[1].text = <<"1", "0", "0", "-", "1", "9", "9">>
    /\ Len(bmapFile.blockMap) = 1
    /\ bmapFile.blockMap[1].blockCount = 100

\* a segment that is empty (a missing hyphen operand) or holds a non-digit
Malformed(t) ==
    \E i \in 1..Len(Split(t, "-")) : ~AllDigits(Split(t, "-")[i])

\* C5: a Range text with a non-numeric segment or a missing hyphen operand
\* makes from_xml_data fail: no descriptor is returned.
C5_MalformedRangeIsFatal ==
    (pc # "xml" /\ AllNamedRange
       /\ \E i \in 1..Len(DocKids) : Malformed(DocKids[i].text))
    => pc = "error"

\* the decoded children of BlockMap that are named Range, in document order
NamedRangeChildren ==
    LET kids == SelectSeq(DocKids, LAMBDA e : e.name = "Range")
    IN  [i \in 1..Len(kids) |-> RangeParse(kids[i].text, kids[i].chksum)]

ScalarsPresent ==
    /\ ~bmapDoc.empty
    /\ \A n \in {"ImageSize", "BlockSize", "BlocksCount", "MappedBlocksCount"} :
         /\ FirstChildElement(bmapDoc.root, n) # 0
         /\ AllDigits(bmapDoc.root[FirstChildElement(bmapDoc.root, n)].text)
    /\ \A n \in {"ChecksumType", "BmapFileChecksum"} :
         FirstChildElement(bmapDoc.root, n) # 0

\* C6: the parsed blockMap is exactly the decoded children of BlockMap named
\* Range, in document order; children of another name contribute nothing; with
\* no BlockMap the list is empty and parsing succeeds.
C6_OnlyRangeChildren ==
    (pc # "xml" /\ ScalarsPresent) =>
        /\ pc = "parsed"
        /\ bmapFile.blockMap = NamedRangeChildren

(***************************************************************************)
(* Properties of copy, checked under Spec.                                 *)
(***************************************************************************)
BlockMap == bmapFile.blockMap

SortedDisjoint ==
    /\ \A i \in 1..Len(BlockMap) : BlockMap[i].blockCount >= 1
    /\ \A i \in 1..(Len(BlockMap) - 1) :
         BlockMap[i].offset + BlockMap[i].blockCount <= BlockMap[i + 1].offset

InSomeRange(b) ==
    \E i \in 1..Len(BlockMap) :
        BlockMap[i].offset <= b /\ b < BlockMap[i].offset + BlockMap[i].blockCount

Untouched == 0 - 2

\* what the destination holds at byte p once every write has reached it: the
\* offset of the source byte, -1 for a stale byte, Untouched when never written
DestByte(p) ==
    LET cover == {i \in 1..Len(writes) :
                      writes[i].dst <= p /\ p < writes[i].dst + writes[i].len}
    IN  IF cover = {} THEN Untouched
        ELSE LET last == CHOOSE i \in cover : \A j \in cover : j <= i
             IN  IF writes[last].src < 0 THEN writes[last].src
                 ELSE writes[last].src + (p - writes[last].dst)

\* the blocks looked at: the image's, as many again past them, and the ranges'
CheckedBlocks ==
    (0..(2 * DevBlocks))
    \cup UNION { BlockMap[i].offset..(BlockMap[i].offset + BlockMap[i].blockCount)
                 : i \in 1..Len(BlockMap) }

\* the bytes of a block looked at: its first three and its last
CheckedOffsets ==
    {o \in 0..2 : o < bmapFile.blockSize} \cup {bmapFile.blockSize - 1}

\* C1: for ranges sorted ascending and non-overlapping, after copy completes
\* without error every destination block inside a range holds the bytes of the
\* same source block, and every block outside all ranges is untouched.
C1_SparseCopy ==
    (pc = "done" /\ faults = 0 /\ SortedDisjoint) =>
        \A b \in CheckedBlocks : \A o \in CheckedOffsets :
            LET p == b * bmapFile.blockSize + o
            IN  IF InSomeRange(b) THEN DestByte(p) = p
                ELSE DestByte(p) = Untouched

\* C2: at every point where a range has completed, every byte written for it
\* and for the earlier ranges is durable on the destination.
C2_RangeDurable ==
    (pc = "range" /\ rangeIdx > 1 /\ faults = 0) => nStable = Len(writes)

\* C3: a short read, a failed write or a failed flush aborts copy: the failed
\* chunk does not advance blocksWritten, gets no callback, and copy does not
\* go on or report success.
C3_IoFailureIsFatal ==
    failure.kind # "none" =>
        /\ pc = "error"
        /\ blocksWritten = failure.blocksWritten
        /\ Len(cbLog) = failure.callbacks

\* C7: with mappedBlocks > 0 the percent values of the callbacks of one copy
\* never decrease, never exceed 100, equal 100 exactly when blocksWritten ==
\* mappedBlocks, and are floor(100 * blocksWritten / mappedBlocks).
C7_Percent ==
    bmapFile.mappedBlocksCount > 0 =>
        \A i \in 1..Len(cbLog) :
            /\ cbLog[i].percent <= 100
            /\ i > 1 => cbLog[i - 1].percent <= cbLog[i].percent
            /\ cbLog[i].percent = 100
                   <=> cbLog[i].blocksWritten = bmapFile.mappedBlocksCount
            /\ cbLog[i].percent =
                   PercentExact(bmapFile.mappedBlocksCount, cbLog[i].blocksWritten)

\* C8: when copy has returned or failed, no handle it opened is still open.
C8_HandlesReleased ==
    pc \in {"done", "error"} => ~srcOpen /\ ~dstOpen

\* the source path is compressed or of no recognized suffix, or the image or
\* the target does not exist
PathError ==
    \/ EndsWith(wicPath, <<"w", "i", "c", ".", "g", "z">>)
    \/ ~EndsWith(wicPath, <<".", "w", "i", "c">>)
    \/ ~fsWic
    \/ ~fsTarget

\* C9: on a path error copy fails with no file opened; the descriptor is
\* opened only after the suffix and existence checks have passed.
C9_PathErrorsBeforeOpen ==
    /\ PathError => opened = {} /\ pc \in {"start", "error"}
    /\ opened # {} => ~PathError /\ pc # "start"

\* a compressed image has been rejected with nothing opened
C9_Witness ==
    /\ pc = "error"
    /\ EndsWith(wicPath, <<".", "w", "i", "c", ".", "g", "z">>)
    /\ fsWic /\ fsTarget /\ fsBmap
    /\ opened = {}

RECURSIVE SumOfRange(_, _)
SumOfRange(log, r) ==
    IF log = <<>> THEN 0
    ELSE (IF log[1].range = r THEN log[1].blocks ELSE 0) + SumOfRange(Tail(log), r)

\* min(2048 * blockSize, 8 MiB) / blockSize
ChunkCap ==
    (IF bmapFile.blockSize >= MAX_BUF_SIZE \div 2048 THEN MAX_BUF_SIZE
     ELSE 2048 * bmapFile.blockSize) \div bmapFile.blockSize

\* C10: every chunk asks read and fwrite for chunkBlocks * blockSize bytes,
\* chunkBlocks is at most min(2048 * blockSize, 8 MiB) / blockSize and the byte
\* count fits the buffer; blocksWritten grows by chunkBlocks and the callback,
\* if any, runs once per chunk with the new value; the chunks of a completed
\* range sum to its blockCount and a successful copy ends with blocksWritten
\* the sum of all blockCounts.
C10_Chunking ==
    /\ \A i \in 1..Len(chunkLog) :
         LET c == chunkLog[i]
         IN  /\ c.rd = c.blocks * bmapFile.blockSize
             /\ c.wr = c.rd
             /\ c.blocks <= ChunkCap
             /\ c.rd <= buffSize
             /\ c.after = c.before + c.blocks
             /\ c.before = IF i = 1 THEN 0 ELSE chunkLog[i - 1].after
             /\ hasCallback =>
                    /\ i <= Len(cbLog)
                    /\ cbLog[i].blocksWritten = c.after
    /\ Len(cbLog) = IF hasCallback THEN Len(chunkLog) ELSE 0
    /\ blocksWritten = IF chunkLog = <<>> THEN 0
                       ELSE chunkLog[Len(chunkLog)].after
    /\ pc \in {"range", "chunk", "done"} =>
           \A r \in 1..Len(BlockMap) :
               r < rangeIdx => SumOfRange(chunkLog, r) = BlockMap[r].blockCount
    /\ pc = "done" => blocksWritten = SumBlocks(BlockMap)

\* a successful copy with a callback in which one range took several chunks
C10_Witness ==
    /\ pc = "done"
    /\ hasCallback
    /\ \E i \in 1..(Len(chunkLog) - 1) :
         /\ chunkLog[i].range = chunkLog[i + 1].range
         /\ chunkLog[i].blocks = 2
         /\ chunkLog[i + 1].blocks = 1
    /\ Len(cbLog) = Len(chunkLog)

\* C11: copy terminates for every block size >= 1 and every finite list of
\* ranges with blockCount >= 1, because every pass of the chunk loop transfers
\* at least one block and so leaves strictly fewer blocks of the range to copy.
C11_ChunkLoopProgress ==
    (bmapFile.blockSize >= 1
       /\ \A r \in 1..Len(BlockMap) : BlockMap[r].blockCount >= 1)
    => /\ \A i \in 1..Len(chunkLog) : chunkLog[i].blocks >= 1
       /\ (pc = "chunk" /\ chunkLog # <<>>
             /\ chunkLog[Len(chunkLog)].range = rangeIdx)
          => blockCount < BlockMap[rangeIdx].blockCount

====
